---- MODULE Spec2Model ----
\* A model of agent.py: the environment substitution of the config text, the
\* loader of the MCP server configurations, and the console loop of chat()
\* run under the top-level handlers of __main__.
EXTENDS Integers, Sequences, FiniteSets, TLC

\* ------------------------------------------------------------------------
\* Bounds of the model
\* ------------------------------------------------------------------------
\* the number of agent calls of one console session
MaxTurns == 3
\* the number of entries under "mcpServers" in a config document
MaxServers == 2

\* ------------------------------------------------------------------------
\* Strings are sequences of one-character strings
\* ------------------------------------------------------------------------
UpperCase == <<"A", "B", "C", "D", "E", "F", "G", "H", "I", "J", "K", "L", "M",
               "N", "O", "P", "Q", "R", "S", "T", "U", "V", "W", "X", "Y", "Z">>

LowerCase == <<"a", "b", "c", "d", "e", "f", "g", "h", "i", "j", "k", "l", "m",
               "n", "o", "p", "q", "r", "s", "t", "u", "v", "w", "x", "y", "z">>

\* str.lower() on one character
LowerChar(c) ==
    IF \E i \in 1..Len(UpperCase) : UpperCase[i] = c
    THEN LowerCase[CHOOSE i \in 1..Len(UpperCase) : UpperCase[i] = c]
    ELSE c

\* str.lower()
Lower(s) == [i \in 1..Len(s) |-> LowerChar(s[i])]

EXIT_COMMANDS == { <<"e", "x", "i", "t">>, <<"q", "u", "i", "t">>, <<"b", "y", "e">> }

\* the test of chat() without lower()
IsExitCommand_NoLower(user_input) == user_input \in EXIT_COMMANDS

\* the test of chat() with the line stripped first
IsExitCommand_Strip(user_input) ==
    LET RECURSIVE LStrip(_), RStrip(_)
        LStrip(s) == IF s # <<>> /\ Head(s) = " " THEN LStrip(Tail(s)) ELSE s
        RStrip(s) == IF s # <<>> /\ s[Len(s)] = " "
                     THEN RStrip(SubSeq(s, 1, Len(s) - 1)) ELSE s
    IN Lower(RStrip(LStrip(user_input))) \in EXIT_COMMANDS

\* the test of chat(): user_input.lower() in EXIT_COMMANDS
IsExitCommand(user_input) == Lower(user_input) \in EXIT_COMMANDS

\* ------------------------------------------------------------------------
\* JSON documents as json.loads returns them, and the Python operations the
\* loader applies to them
\* ------------------------------------------------------------------------
K_mcpServers == <<"m", "c", "p", "S", "e", "r", "v", "e", "r", "s">>

K_command == <<"c", "o", "m", "m", "a", "n", "d">>

K_args == <<"a", "r", "g", "s">>

K_env == <<"e", "n", "v">>

\* dict: keys in insertion order with their values
Obj(keys, vals) == [t |-> "object", keys |-> keys, vals |-> vals, s |-> <<>>]

Str(s) == [t |-> "string", keys |-> <<>>, vals |-> <<>>, s |-> s]

Arr(elems) == [t |-> "array", keys |-> <<>>, vals |-> elems, s |-> <<>>]

Num == [t |-> "number", keys |-> <<>>, vals |-> <<>>, s |-> <<>>]

\* JSON null, Python None
None == [t |-> "null", keys |-> <<>>, vals |-> <<>>, s |-> <<>>]

\* the result of evaluating a Python expression or block: a value or a raised exception
Value(v) == [exc |-> "none", val |-> v]

Raise(e) == [exc |-> e, val |-> <<>>]

IsSubstring(needle, hay) ==
    \E i \in 0..(Len(hay) - Len(needle)) :
        \A j \in 1..Len(needle) : hay[i + j] = needle[j]

\* `key in v` for a str key: dict membership, substring of a str, element of a
\* list, TypeError for the values that are no containers
PyIn(key, v) ==
    CASE v.t = "object" -> Value(\E i \in 1..Len(v.keys) : v.keys[i] = key)
      [] v.t = "string" -> Value(IsSubstring(key, v.s))
      [] v.t = "array" -> Value(\E i \in 1..Len(v.vals) : v.vals[i] = Str(key))
      [] OTHER -> Raise("TypeError")

\* `v[key]` for a str key
PyGetItem(v, key) ==
    CASE v.t = "object" ->
            IF \E i \in 1..Len(v.keys) : v.keys[i] = key
            THEN Value(v.vals[CHOOSE i \in 1..Len(v.keys) : v.keys[i] = key])
            ELSE Raise("KeyError")
      [] OTHER -> Raise("TypeError")

\* `v.get(key, default)`
PyGet(v, key, default) ==
    CASE v.t = "object" ->
            IF \E i \in 1..Len(v.keys) : v.keys[i] = key
            THEN Value(v.vals[CHOOSE i \in 1..Len(v.keys) : v.keys[i] = key])
            ELSE Value(default)
      [] OTHER -> Raise("AttributeError")

\* MCPServerStdio(command=..., args=..., env=...)
MCPServerStdio(command, args, env) == [command |-> command, args |-> args, env |-> env]

\* the body of the for loop over config["mcpServers"].items(), from entry i on
RECURSIVE LoadEntries(_, _, _)
LoadEntries(m, i, servers) ==
    IF i > Len(m.keys) THEN Value(servers)
    ELSE LET server_config == m.vals[i]
             has_command == PyIn(K_command, server_config)
             has_args == PyIn(K_args, server_config)
             command == PyGetItem(server_config, K_command)
             args == PyGetItem(server_config, K_args)
             env == PyGet(server_config, K_env, None)
         IN  IF has_command.exc # "none" THEN Raise(has_command.exc)
             ELSE IF ~has_command.val THEN LoadEntries(m, i + 1, servers)
             ELSE IF has_args.exc # "none" THEN Raise(has_args.exc)
             ELSE IF ~has_args.val THEN LoadEntries(m, i + 1, servers)
             ELSE IF command.exc # "none" THEN Raise(command.exc)
             ELSE IF args.exc # "none" THEN Raise(args.exc)
             ELSE IF env.exc # "none" THEN Raise(env.exc)
             ELSE LoadEntries(m, i + 1,
                      Append(servers, MCPServerStdio(command.val, args.val, env.val)))

\* the try block of load_mcp_servers_from_config; config_file is the state of
\* mcp-config.json: file is "unreadable" when open() or read() raises,
\* "invalid_json" when json.loads raises on the substituted text, and "json"
\* when it returns doc
LoadTryBlock(config_file) ==
    IF config_file.file = "unreadable" THEN Raise("OSError")
    ELSE IF config_file.file = "invalid_json" THEN Raise("JSONDecodeError")
    ELSE LET config == config_file.doc
             has_key == PyIn(K_mcpServers, config)
             mcpServers == PyGetItem(config, K_mcpServers)
         IN  IF has_key.exc # "none" THEN Raise(has_key.exc)
             ELSE IF ~has_key.val THEN Value(<<>>)
             ELSE IF mcpServers.exc # "none" THEN Raise(mcpServers.exc)
             ELSE IF mcpServers.val.t # "object" THEN Raise("AttributeError")
             ELSE LoadEntries(mcpServers.val, 1, <<>>)

\* load_mcp_servers_from_config without its except clause
load_mcp_servers_from_config_NoExcept(config_file) ==
    IF config_file.file = "missing" THEN Value(<<>>)
    ELSE LoadTryBlock(config_file)

\* load_mcp_servers_from_config(): what the call returns or raises
load_mcp_servers_from_config(config_file) ==
    IF config_file.file = "missing" THEN Value(<<>>)
    ELSE LET r == LoadTryBlock(config_file)
         IN  IF r.exc # "none" THEN Value(<<>>) ELSE r


\* ------------------------------------------------------------------------
\* Environment substitution
\* ------------------------------------------------------------------------
Digits == {"0", "1", "2", "3", "4", "5", "6", "7", "8", "9"}

\* [A-Za-z_]
IsNameStart(c) ==
    \/ \E i \in 1..Len(UpperCase) : UpperCase[i] = c
    \/ \E i \in 1..Len(LowerCase) : LowerCase[i] = c
    \/ c = "_"

\* [A-Za-z0-9_]
IsNameChar(c) == IsNameStart(c) \/ c \in Digits

\* the last index of the greedy run [A-Za-z0-9_]* that starts at index i
RECURSIVE NameEnd(_, _)
NameEnd(text, i) ==
    IF i + 1 <= Len(text) /\ IsNameChar(text[i + 1]) THEN NameEnd(text, i + 1) ELSE i

\* ENV_SUBS_PATTERN matched at index i: \$ \{? ([A-Za-z_][A-Za-z0-9_]*) \}?
\* found: whether it matches; first..last: group(1); end: the last index of group(0)
MatchAt(text, i) ==
    LET brace == i + 1 <= Len(text) /\ text[i + 1] = "{"
        first == IF brace THEN i + 2 ELSE i + 1
    IN  IF text[i] = "$" /\ first <= Len(text) /\ IsNameStart(text[first])
        THEN LET last == NameEnd(text, first)
                 close == last + 1 <= Len(text) /\ text[last + 1] = "}"
             IN  [found |-> TRUE, first |-> first, last |-> last,
                  end |-> IF close THEN last + 1 ELSE last]
        ELSE [found |-> FALSE, first |-> i, last |-> i, end |-> i]

\* the lambda of envsubst with the absent names replaced by the empty string
Replacement_EmptyIfAbsent(text, i, env) ==
    LET m == MatchAt(text, i)
        name == SubSeq(text, m.first, m.last)
    IN  IF name \in DOMAIN env THEN env[name] ELSE <<>>

\* the lambda of envsubst: env.get(m.group(1), m.group(0))
Replacement(text, i, env) ==
    LET m == MatchAt(text, i)
        name == SubSeq(text, m.first, m.last)
    IN  IF name \in DOMAIN env THEN env[name] ELSE SubSeq(text, i, m.end)

\* ENV_SUBS_PATTERN.sub(...) from index i on: the matches are taken left to right,
\* they do not overlap, and a replacement is not scanned again
RECURSIVE SubFrom(_, _, _)
SubFrom(text, i, env) ==
    IF i > Len(text) THEN <<>>
    ELSE IF MatchAt(text, i).found
         THEN Replacement(text, i, env) \o SubFrom(text, MatchAt(text, i).end + 1, env)
         ELSE <<text[i]>> \o SubFrom(text, i + 1, env)

envsubst(text, env) == SubFrom(text, 1, env)

\* the names of the matches of ENV_SUBS_PATTERN in text, as re.finditer yields them
RECURSIVE MatchedNamesFrom(_, _)
MatchedNamesFrom(text, i) ==
    IF i > Len(text) THEN {}
    ELSE IF MatchAt(text, i).found
         THEN {SubSeq(text, MatchAt(text, i).first, MatchAt(text, i).last)}
                  \cup MatchedNamesFrom(text, MatchAt(text, i).end + 1)
         ELSE MatchedNamesFrom(text, i + 1)

MatchedNames(text) == MatchedNamesFrom(text, 1)


\* ------------------------------------------------------------------------
\* State
\* ------------------------------------------------------------------------
VARIABLES
    pc,               \* where the process is: "initialize", "sleep", the loop's
                      \* states AWAITING_INPUT and PROCESSING, "TERMINATED"
    config_file,      \* mcp-config.json as the loader finds it
    mcp_servers,      \* the descriptors the agent was constructed with
    running,          \* the indices of mcp_servers whose subprocess runs
    message_history,  \* message_history of chat()
    user_input,       \* user_input of chat()
    calls,            \* the calls of agent.run so far, each with its arguments and outcome
    raised,           \* the exception that reached the handlers of __main__
    exit_status,      \* the exit status of the process, -1 while it runs
    event,            \* what the last step was
    load_result,      \* what load_mcp_servers_from_config returned or raised
    text,             \* the text given to envsubst
    env,              \* the environment mapping given to envsubst
    once,             \* envsubst(text, env)
    twice,            \* envsubst(once, env)
    passes            \* the number of substitution passes done

vars == <<pc, config_file, mcp_servers, running, message_history, user_input, calls,
          raised, exit_status, event, load_result, text, env, once, twice, passes>>

chat_vars == <<pc, mcp_servers, running, message_history, user_input, calls,
               raised, exit_status, event>>

subst_vars == <<text, env, once, twice, passes>>

\* ------------------------------------------------------------------------
\* Inputs
\* ------------------------------------------------------------------------
\* what the user can type at the prompt
Lines ==
    { <<"e", "x", "i", "t">>, <<"E", "x", "i", "t">>, <<"Q", "U", "I", "T">>,
      <<"b", "y", "e">>, <<" ", " ", "b", "y", "e">>,
      <<"h", "i">>, <<>> }

\* the entries a config document can hold under a server name
ValidEntry == Obj(<<K_command, K_args>>, <<Str(<<"n", "p", "x">>), Arr(<<>>)>>)

ValidEntryWithEnv ==
    Obj(<<K_command, K_args, K_env>>,
        <<Str(<<"u", "v", "x">>), Arr(<<Str(<<"-", "q">>)>>), Obj(<<>>, <<>>)>>)

Entries ==
    { ValidEntry, ValidEntryWithEnv,
      Obj(<<K_command>>, <<Str(<<"n", "p", "x">>)>>),
      Obj(<<K_args>>, <<Arr(<<>>)>>),
      Obj(<<>>, <<>>),
      None, Num,
      Str(<<"x">>),
      Arr(<<Str(K_command), Str(K_args)>>) }

ServerNames == <<<<"a">>, <<"b">>, <<"c">>, <<"d">>>>

\* the documents with a "mcpServers" object of at most MaxServers entries
ServerDocs ==
    UNION { { Obj(<<K_mcpServers>>, <<Obj(SubSeq(ServerNames, 1, k), es)>>) :
                es \in [1..k -> Entries] } : k \in 0..MaxServers }

JsonFile(doc) == [file |-> "json", doc |-> doc]

ConfigFiles ==
    { [file |-> f, doc |-> None] : f \in {"missing", "unreadable", "invalid_json"} }
        \cup { JsonFile(d) : d \in ServerDocs }
        \cup { JsonFile(d) : d \in { Obj(<<>>, <<>>), None, Num, Arr(<<>>),
                                     Str(K_mcpServers),
                                     Obj(<<K_mcpServers>>, <<None>>),
                                     Obj(<<K_mcpServers>>, <<Arr(<<>>)>>),
                                     Obj(<<K_command>>, <<Obj(<<>>, <<>>)>>) } }

\* the config files of the console sessions
SessionConfigFiles ==
    { [file |-> "missing", doc |-> None],
      JsonFile(Obj(<<K_mcpServers>>,
                   <<Obj(SubSeq(ServerNames, 1, 2), <<ValidEntry, ValidEntryWithEnv>>)>>)) }

\* agent.run(user_input, message_history=message_history) when it returns:
\* the possible result.all_messages()
AgentResults(input, history) ==
    { history \o << [role |-> "user", content |-> input],
                    [role |-> "assistant", content |-> <<"o", "k">>] >>,
      << [role |-> "assistant", content |-> <<"s", "u", "m">>] >> }

Call(input, history) ==
    [input |-> input, history |-> history, outcome |-> "pending", all_messages |-> <<>>]

\* the handlers of __main__: the exit status for what asyncio.run(main()) raised
\* the handlers without the `except KeyboardInterrupt` clause
TopLevelExit_InterruptFails(exc) == IF exc = "none" THEN 0 ELSE 1

TopLevelExit(exc) ==
    IF exc = "none" THEN 0
    ELSE IF exc = "KeyboardInterrupt" THEN 0
    ELSE 1

\* the block left with no scope around it
ExitServerScope_Leak(servers) == servers

\* leaving the block of `async with agent.run_mcp_servers()`: the servers still running

ExitServerScope(servers) == {}


\* ------------------------------------------------------------------------
\* The console session: __main__, main, initialize_agent and chat
\* ------------------------------------------------------------------------
NoSubst ==
    /\ text = <<>> /\ env = <<>> /\ once = <<>> /\ twice = <<>> /\ passes = 0

Init ==
    /\ pc = "initialize"
    /\ config_file \in SessionConfigFiles
    /\ mcp_servers = <<>>
    /\ running = {}
    /\ message_history = <<>>
    /\ user_input = <<>>
    /\ calls = <<>>
    /\ raised = "none"
    /\ exit_status = -1
    /\ event = "start"
    /\ load_result = Value(<<>>)
    /\ NoSubst

\* the process ends with exception exc propagating out of asyncio.run(main())
\* (exc = "none": main returned)
Terminate(exc) ==
    /\ pc' = "TERMINATED"
    /\ raised' = exc
    /\ exit_status' = TopLevelExit(exc)

\* initialize_agent() returns (agent, True): the config is loaded and the agent
\* constructed with the loaded servers
InitializeAgent ==
    /\ pc = "initialize"
    /\ load_result' = load_mcp_servers_from_config(config_file)
    /\ load_result'.exc = "none"
    /\ mcp_servers' = load_result'.val
    /\ pc' = "sleep"
    /\ event' = "initialized"
    /\ UNCHANGED <<config_file, running, message_history, user_input, calls, raised,
                   exit_status>>
    /\ UNCHANGED subst_vars

\* initialize_agent() catches an exception of OpenAIModel(...) or Agent(...) and
\* returns (None, False); main prints the failure and returns
InitializeAgentFails ==
    /\ pc = "initialize"
    /\ load_result' = load_mcp_servers_from_config(config_file)
    /\ Terminate("none")
    /\ event' = "init_failed"
    /\ UNCHANGED <<config_file, mcp_servers, running, message_history, user_input, calls>>
    /\ UNCHANGED subst_vars

\* `async with agent.run_mcp_servers()` entered after the sleep: every server runs
StartServers ==
    /\ pc = "sleep"
    /\ running' = 1..Len(mcp_servers)
    /\ pc' = "AWAITING_INPUT"
    /\ event' = "servers_started"
    /\ UNCHANGED <<config_file, mcp_servers, message_history, user_input, calls, raised,
                   exit_status, load_result>>
    /\ UNCHANGED subst_vars

\* entering the scope raises (a server fails to start): none is left running
StartServersFails ==
    /\ pc = "sleep"
    /\ mcp_servers # <<>>
    /\ running' = ExitServerScope(1..Len(mcp_servers))
    /\ Terminate("Exception")
    /\ event' = "start_failed"
    /\ UNCHANGED <<config_file, mcp_servers, message_history, user_input, calls,
                   load_result>>
    /\ UNCHANGED subst_vars

\* one pass of the while loop up to the await: input() returns a line, which is
\* an exit command (break) or the argument of agent.run
ReadInput ==
    /\ pc = "AWAITING_INPUT"
    /\ \E line \in Lines :
        /\ user_input' = line
        /\ event' = "input"
        /\ IF IsExitCommand(line)
           THEN /\ running' = ExitServerScope(running)
                /\ Terminate("none")
                /\ UNCHANGED calls
           ELSE /\ Len(calls) < MaxTurns
                /\ calls' = Append(calls, Call(line, message_history))
                /\ pc' = "PROCESSING"
                /\ UNCHANGED <<running, raised, exit_status>>
    /\ UNCHANGED <<config_file, mcp_servers, message_history, load_result>>
    /\ UNCHANGED subst_vars

\* input() raises (EOFError at the end of the input): nothing in chat catches it
ReadInputRaises ==
    /\ pc = "AWAITING_INPUT"
    /\ running' = ExitServerScope(running)
    /\ Terminate("EOFError")
    /\ event' = "input_raised"
    /\ UNCHANGED <<config_file, mcp_servers, message_history, user_input, calls,
                   load_result>>
    /\ UNCHANGED subst_vars

Completed(outcome, all_messages) ==
    [calls EXCEPT ![Len(calls)] =
        [@ EXCEPT !.outcome = outcome, !.all_messages = all_messages]]

\* the try block with the reply appended to the history held by the loop
AgentReturns_Extend ==
    /\ pc = "PROCESSING"
    /\ \E all_messages \in AgentResults(user_input, message_history) :
        /\ message_history' = Append(message_history, all_messages[Len(all_messages)])
        /\ calls' = Completed("ok", all_messages)
    /\ pc' = "AWAITING_INPUT"
    /\ event' = "agent_ok"
    /\ UNCHANGED <<config_file, mcp_servers, running, user_input, raised, exit_status,
                   load_result>>
    /\ UNCHANGED subst_vars

\* agent.run returns and the try block completes: the response is printed and
\* message_history = result.all_messages()
AgentReturns ==
    /\ pc = "PROCESSING"
    /\ \E all_messages \in AgentResults(user_input, message_history) :
        /\ message_history' = all_messages
        /\ calls' = Completed("ok", all_messages)
    /\ pc' = "AWAITING_INPUT"
    /\ event' = "agent_ok"
    /\ UNCHANGED <<config_file, mcp_servers, running, user_input, raised, exit_status,
                   load_result>>
    /\ UNCHANGED subst_vars

\* the except clause with the failed turn's input kept in the history
AgentRaises_KeepInput ==
    /\ pc = "PROCESSING"
    /\ calls' = Completed("error", <<>>)
    /\ message_history' = Append(message_history, [role |-> "user", content |-> user_input])
    /\ pc' = "AWAITING_INPUT"
    /\ event' = "agent_error"
    /\ UNCHANGED <<config_file, mcp_servers, running, user_input, raised, exit_status,
                   load_result>>
    /\ UNCHANGED subst_vars

\* agent.run raises an Exception: the except clause prints it and the loop goes on
AgentRaises ==
    /\ pc = "PROCESSING"
    /\ calls' = Completed("error", <<>>)
    /\ pc' = "AWAITING_INPUT"
    /\ event' = "agent_error"
    /\ UNCHANGED <<config_file, mcp_servers, running, message_history, user_input, raised,
                   exit_status, load_result>>
    /\ UNCHANGED subst_vars

\* Ctrl+C: KeyboardInterrupt leaves asyncio.run(main()), through the server scope
\* when chat is inside it; `except Exception` catches it nowhere
Interrupt ==
    /\ pc \in {"initialize", "sleep", "AWAITING_INPUT", "PROCESSING"}
    /\ running' = ExitServerScope(running)
    /\ Terminate("KeyboardInterrupt")
    /\ event' = "interrupt"
    /\ UNCHANGED <<config_file, mcp_servers, message_history, user_input, calls,
                   load_result>>
    /\ UNCHANGED subst_vars

Next ==
    \/ InitializeAgent
    \/ InitializeAgentFails
    \/ StartServers
    \/ StartServersFails
    \/ ReadInput
    \/ ReadInputRaises
    \/ AgentReturns
    \/ AgentRaises
    \/ Interrupt

Spec == Init /\ [][Next]_vars


\* ------------------------------------------------------------------------
\* The loader on its own: every config file, one call of the loader
\* ------------------------------------------------------------------------
InitLoad ==
    /\ pc = "load"
    /\ config_file \in ConfigFiles
    /\ mcp_servers = <<>>
    /\ running = {}
    /\ message_history = <<>>
    /\ user_input = <<>>
    /\ calls = <<>>
    /\ raised = "none"
    /\ exit_status = -1
    /\ event = "start"
    /\ load_result = Value(<<>>)
    /\ NoSubst

\* mcp_servers = load_mcp_servers_from_config(), as initialize_agent calls it
LoadConfig ==
    /\ pc = "load"
    /\ load_result' = load_mcp_servers_from_config(config_file)
    /\ mcp_servers' = IF load_result'.exc = "none" THEN load_result'.val ELSE <<>>
    /\ raised' = load_result'.exc
    /\ pc' = "loaded"
    /\ event' = "loaded"
    /\ UNCHANGED <<config_file, running, message_history, user_input, calls, exit_status>>
    /\ UNCHANGED subst_vars

NextLoad == LoadConfig

SpecLoad == InitLoad /\ [][NextLoad]_vars

\* ------------------------------------------------------------------------
\* envsubst on its own: every text and environment, substituted once and again
\* ------------------------------------------------------------------------
\* the length of the text given to envsubst
MaxTextLen == 4

TextChars == {"$", "{", "}", "A", "1", "-"}

Texts == UNION { [1..n -> TextChars] : n \in 0..MaxTextLen }

EnvNames == { <<"A">>, <<"B">> }

EnvValues == { <<"-">>, <<"$", "B">>, <<"$">> }

Envs == UNION { [names -> EnvValues] : names \in SUBSET EnvNames }

InitSubst ==
    /\ pc = "subst"
    /\ config_file = [file |-> "missing", doc |-> None]
    /\ mcp_servers = <<>>
    /\ running = {}
    /\ message_history = <<>>
    /\ user_input = <<>>
    /\ calls = <<>>
    /\ raised = "none"
    /\ exit_status = -1
    /\ event = "start"
    /\ load_result = Value(<<>>)
    /\ text \in Texts
    /\ env \in Envs
    /\ once = <<>>
    /\ twice = <<>>
    /\ passes = 0

Substitute ==
    /\ passes = 0
    /\ once' = envsubst(text, env)
    /\ passes' = 1
    /\ UNCHANGED <<text, env, twice, config_file, load_result>>
    /\ UNCHANGED chat_vars

SubstituteAgain ==
    /\ passes = 1
    /\ twice' = envsubst(once, env)
    /\ passes' = 2
    /\ UNCHANGED <<text, env, once, config_file, load_result>>
    /\ UNCHANGED chat_vars

NextSubst == Substitute \/ SubstituteAgain

SpecSubst == InitSubst /\ [][NextSubst]_vars


\* ------------------------------------------------------------------------
\* Properties of the console loop (under Spec)
\* ------------------------------------------------------------------------
\* a equals b case-insensitively
EqualsIgnoreCase(a, b) ==
    /\ Len(a) = Len(b)
    /\ \A i \in 1..Len(a) : LowerChar(a[i]) = LowerChar(b[i])

IsExitKeyword(line) == \E k \in EXIT_COMMANDS : EqualsIgnoreCase(line, k)

\* line without its leading and trailing spaces
RECURSIVE Trimmed(_)
Trimmed(line) ==
    IF line # <<>> /\ Head(line) = " " THEN Trimmed(Tail(line))
    ELSE IF line # <<>> /\ line[Len(line)] = " " THEN Trimmed(SubSeq(line, 1, Len(line) - 1))
    ELSE line

\* the history returned by the most recent successful call before call i,
\* the empty history when there is none
LastReturned(i) ==
    LET succeeded == { j \in 1..(i - 1) : calls[j].outcome = "ok" }
    IN  IF succeeded = {} THEN <<>>
        ELSE calls[CHOOSE j \in succeeded : \A k \in succeeded : k <= j].all_messages

\* C1: when a call to the agent raises an exception, the loop returns to
\* AWAITING_INPUT, the process does not end and the history is unchanged; the
\* call after a failed one is handed the history the failed one was handed.
C1_FailedTurnKeepsHistory ==
    [][/\ (pc = "PROCESSING" /\ event' = "agent_error")
            => (/\ pc' = "AWAITING_INPUT"
                /\ exit_status' = -1
                /\ message_history' = message_history)
       /\ (/\ pc = "AWAITING_INPUT" /\ pc' = "PROCESSING"
           /\ calls # <<>> /\ calls[Len(calls)].outcome = "error")
            => calls'[Len(calls')].history = calls[Len(calls)].history]_vars

C1_Witness ==
    /\ Len(calls) = 3
    /\ calls[1].outcome = "ok"
    /\ calls[2].outcome = "error"
    /\ calls[3].outcome = "ok"
    /\ calls[3].history = calls[1].all_messages
    /\ calls[3].history # <<>>

\* C2: in no terminated state is a tool-server subprocess still running,
\* whichever way the loop was left.
C2_ServersStoppedOnExit == pc = "TERMINATED" => running = {}

C2_Witness ==
    /\ pc = "TERMINATED"
    /\ event = "input_raised"
    /\ Len(mcp_servers) = 2
    /\ running = {}

\* C3: a line read in AWAITING_INPUT that equals an exit keyword
\* case-insensitively ends the loop with no agent call; every other line moves
\* the loop to PROCESSING with exactly one agent call, which carries the line and
\* the accumulated history.
C3_ExitOrForward ==
    [][(pc = "AWAITING_INPUT" /\ event' = "input")
          => IF IsExitKeyword(user_input')
             THEN pc' = "TERMINATED" /\ calls' = calls
             ELSE /\ pc' = "PROCESSING"
                  /\ calls' = Append(calls, Call(user_input', message_history))]_vars

C3_Witness ==
    /\ pc = "TERMINATED"
    /\ event = "input"
    /\ user_input = <<"Q", "U", "I", "T">>
    /\ Len(calls) = 1
    /\ calls[1].input = <<"h", "i">>

\* C4 as claimed: a line that is an exit keyword surrounded by whitespace is
\* trimmed before the comparison, so it ends the loop with no agent call.
C4_Original_TrimmedBeforeComparison ==
    (event = "input" /\ IsExitKeyword(Trimmed(user_input)))
        => (pc = "TERMINATED" /\ \A i \in 1..Len(calls) : calls[i].input # user_input)

\* C4 amended: the line is compared untrimmed. An exit keyword with leading or
\* trailing whitespace is no exit command: it is forwarded to the agent as typed
\* and the loop goes to PROCESSING; only the bare keyword, in any case, ends the
\* loop with no agent call.
C4_UntrimmedComparison ==
    event = "input" =>
        /\ (IsExitKeyword(Trimmed(user_input)) /\ Trimmed(user_input) # user_input)
              => (/\ pc = "PROCESSING"
                  /\ calls[Len(calls)].input = user_input
                  /\ calls[Len(calls)].outcome = "pending")
        /\ (IsExitKeyword(user_input) /\ Trimmed(user_input) = user_input)
              => (pc = "TERMINATED" /\ \A i \in 1..Len(calls) : calls[i].outcome # "pending")

C4_Witness ==
    /\ event = "input"
    /\ user_input = <<" ", " ", "b", "y", "e">>
    /\ pc = "PROCESSING"
    /\ calls[Len(calls)].input = user_input

\* C5: every agent call is handed the history returned by the most recent
\* successful call of the session (the empty history when none has succeeded),
\* and after a successful turn the loop holds exactly the history the agent returned.
C5_HistoryIsLastReturned ==
    /\ \A i \in 1..Len(calls) : calls[i].history = LastReturned(i)
    /\ event = "agent_ok" => message_history = calls[Len(calls)].all_messages
    /\ pc = "AWAITING_INPUT" => message_history = LastReturned(Len(calls) + 1)

C5_Witness ==
    /\ Len(calls) = 3
    /\ calls[1].outcome = "ok"
    /\ calls[2].outcome = "ok"
    /\ Len(calls[2].all_messages) < Len(calls[1].all_messages)
    /\ calls[3].history = calls[2].all_messages

\* C10: an interrupt in any loop state and an exit keyword end the process with
\* status 0; an exception that escapes to the top level (one raised by input()
\* included) ends it with status 1; status 0 is reached with no other exception
\* than the interrupt.
C10_ExitStatus ==
    pc = "TERMINATED" =>
        /\ event = "interrupt" => exit_status = 0
        /\ (event = "input" /\ IsExitKeyword(user_input)) => exit_status = 0
        /\ event = "input_raised" => exit_status = 1
        /\ raised \notin {"none", "KeyboardInterrupt"} => exit_status = 1
        /\ exit_status = 0 => raised \in {"none", "KeyboardInterrupt"}
        /\ exit_status \in {0, 1}

C10_Witness ==
    /\ pc = "TERMINATED"
    /\ event = "interrupt"
    /\ calls # <<>>
    /\ calls[Len(calls)].outcome = "pending"
    /\ exit_status = 0

\* ------------------------------------------------------------------------
\* Properties of the loader (under SpecLoad)
\* ------------------------------------------------------------------------
\* an entry with the two required fields
IsValidEntry(entry) ==
    /\ entry.t = "object"
    /\ \E i \in 1..Len(entry.keys) : entry.keys[i] = K_command
    /\ \E i \in 1..Len(entry.keys) : entry.keys[i] = K_args

FieldOf(entry, key) == entry.vals[CHOOSE i \in 1..Len(entry.keys) : entry.keys[i] = key]

DescriptorOf(entry) ==
    [command |-> FieldOf(entry, K_command),
     args |-> FieldOf(entry, K_args),
     env |-> IF \E i \in 1..Len(entry.keys) : entry.keys[i] = K_env
             THEN FieldOf(entry, K_env) ELSE None]

\* one descriptor per valid entry, in the order of the entries
RECURSIVE DescriptorsOfValid(_)
DescriptorsOfValid(entries) ==
    IF entries = <<>> THEN <<>>
    ELSE (IF IsValidEntry(Head(entries)) THEN <<DescriptorOf(Head(entries))>> ELSE <<>>)
             \o DescriptorsOfValid(Tail(entries))

MapsNamesToEntries(cf) ==
    /\ cf.file = "json"
    /\ cf.doc.t = "object"
    /\ cf.doc.keys = <<K_mcpServers>>
    /\ cf.doc.vals[1].t = "object"

\* C6 as claimed: for every config whose top-level key maps names to entries,
\* the result holds exactly one descriptor per valid entry, in the order of the
\* mapping, whatever the invalid entries are and wherever they sit.
C6_OneDescriptorPerValidEntry ==
    (pc = "loaded" /\ MapsNamesToEntries(config_file))
        => /\ load_result.exc = "none"
           /\ load_result.val = DescriptorsOfValid(config_file.doc.vals[1].vals)

\* C7: loading never raises; a missing file, unparsable JSON, any exception in
\* the loader and a document without the top-level key each yield the empty
\* descriptor sequence.
C7_LoadNeverRaises ==
    pc = "loaded" =>
        /\ load_result.exc = "none"
        /\ raised = "none"
        /\ (\/ config_file.file \in {"missing", "unreadable", "invalid_json"}
            \/ LoadTryBlock(config_file).exc # "none"
            \/ (config_file.doc.t = "object"
                  /\ \A i \in 1..Len(config_file.doc.keys) :
                        config_file.doc.keys[i] # K_mcpServers))
              => (load_result.val = <<>> /\ mcp_servers = <<>>)

C7_Witness ==
    /\ pc = "loaded"
    /\ config_file.file = "json"
    /\ LoadTryBlock(config_file).exc = "TypeError"
    /\ load_result = Value(<<>>)


\* ------------------------------------------------------------------------
\* Properties of envsubst (under SpecSubst)
\* ------------------------------------------------------------------------
\* the well-formed token that starts at index i: $NAME, or ${NAME} with both braces
TokenAt(t, i) ==
    IF t[i] = "$" /\ i + 1 <= Len(t) /\ IsNameStart(t[i + 1])
    THEN [found |-> TRUE, first |-> i + 1, last |-> NameEnd(t, i + 1),
          end |-> NameEnd(t, i + 1)]
    ELSE IF /\ t[i] = "$" /\ i + 2 <= Len(t) /\ t[i + 1] = "{" /\ IsNameStart(t[i + 2])
            /\ NameEnd(t, i + 2) + 1 <= Len(t) /\ t[NameEnd(t, i + 2) + 1] = "}"
    THEN [found |-> TRUE, first |-> i + 2, last |-> NameEnd(t, i + 2),
          end |-> NameEnd(t, i + 2) + 1]
    ELSE [found |-> FALSE, first |-> i, last |-> i, end |-> i]

\* t holds no opened token that is not well formed
OnlyWellFormedTokens(t) ==
    \A i \in 1..Len(t) :
        (t[i] = "$" /\ i + 1 <= Len(t) /\ t[i + 1] = "{") => TokenAt(t, i).found

\* t with every token whose name is in e replaced by its value, and the rest as it is
RECURSIVE TokensReplacedFrom(_, _, _)
TokensReplacedFrom(t, i, e) ==
    IF i > Len(t) THEN <<>>
    ELSE IF TokenAt(t, i).found
         THEN LET tok == TokenAt(t, i)
                  name == SubSeq(t, tok.first, tok.last)
              IN  (IF name \in DOMAIN e THEN e[name] ELSE SubSeq(t, i, tok.end))
                      \o TokensReplacedFrom(t, tok.end + 1, e)
         ELSE <<t[i]>> \o TokensReplacedFrom(t, i + 1, e)

\* C8 as claimed: on a text with only well-formed tokens, envsubst replaces every
\* token whose name is in the environment by its value, leaves every other token
\* as it is, and leaves the text outside the tokens unchanged.
C8_ReplacesTokensOnly ==
    (passes >= 1 /\ OnlyWellFormedTokens(text)) => once = TokensReplacedFrom(text, 1, env)

\* C9 as claimed: when the result of one pass holds no token whose name is
\* absent from the environment, a second pass changes nothing.
C9_Original_IdempotentWhenNoneAbsent ==
    (passes = 2 /\ \A name \in MatchedNames(once) : name \in DOMAIN env) => twice = once

\* C9 amended: when the result of one pass holds no token whose name is present
\* in the environment, a second pass changes nothing.
C9_IdempotentWhenNonePresent ==
    (passes = 2 /\ \A name \in MatchedNames(once) : name \notin DOMAIN env) => twice = once

C9_Witness ==
    /\ passes = 2
    /\ once # text
    /\ MatchedNames(once) # {}
    /\ \A name \in MatchedNames(once) : name \notin DOMAIN env
    /\ twice = once


====
